---------------------------- MODULE Spec2Model ----------------------------
(***************************************************************************)
(* A model of 3d_virtual_app/parse_cameras.py: the command-line tool that  *)
(* reads camera entries from an XML document, converts each entry's 4x4    *)
(* transform into rotation, translation and camera centre, and writes the  *)
(* collected records to a JSON file.                                       *)
(*                                                                         *)
(* Numbers are integers: the floating-point tokens of a transform are      *)
(* restricted to integer-valued literals, on which float arithmetic is     *)
(* exact.  A norm is carried as its square (the square root is monotone).  *)
(* The model assumes that the output path can be opened for writing and    *)
(* that standard output accepts every line printed.                        *)
(***************************************************************************)
EXTENDS Integers, Sequences, FiniteSets, TLC

VARIABLES
    argv,       \* sys.argv, argv[1] being the program name
    pc,         \* the position of main()
    doc,        \* the camera elements root.findall('.//camera') yields
    i,          \* the index in doc of the next element of the for loop
    cameras,    \* the list parse_camera_xml accumulates
    distances,  \* the list print_camera_stats accumulates
    out,        \* the lines printed on standard output
    fs,         \* the file system: path -> content
    opens,      \* how many times a file was opened for writing
    exitCode    \* the exit code of the process, NoExit while it runs

vars == <<argv, pc, doc, i, cameras, distances, out, fs, opens, exitCode>>

----------------------------------------------------------------------------
(* Bounds of the model.                                                    *)

\* The longest document: the number of camera elements in it.
MaxEntries == 2
\* The largest number of non-zero tokens of a wide transform.
MaxNonZero == 2

----------------------------------------------------------------------------
(* Python values.                                                          *)

\* None is the empty option, Some(x) a present value.
None == <<>>
Some(x) == <<x>>

\* str(x) of an optional string, as an f-string formats it.
Str(opt) == IF opt = None THEN "None" ELSE opt[1]

\* The result of an expression that may raise.
Ok(v) == [ok |-> TRUE, val |-> v]
Raise(msg) == [ok |-> FALSE, err |-> msg]

NoExit == -1

\* The literals of the model that float() accepts, with their values.
FloatTable ==
    ("0" :> 0) @@ ("1" :> 1) @@ ("-1" :> -1) @@ ("2" :> 2) @@ ("-2" :> -2)
    @@ ("3" :> 3) @@ ("-3" :> -3) @@ ("+1" :> 1) @@ ("10" :> 10) @@ ("-10" :> -10)

\* float(x) of line 22.
FloatOf(x) ==
    IF x \in DOMAIN FloatTable
    THEN Ok(FloatTable[x])
    ELSE Raise("could not convert string to float: " \o x)

\* The literals of the model that int() accepts, with their values.
IntTable == ("7" :> 7) @@ ("07" :> 7) @@ ("8" :> 8)

\* int(camera_id) of line 94: a TypeError for None, a ValueError for a
\* string that is no integer literal.
IntOf(opt) ==
    IF opt = None
    THEN Raise("int() argument must be a string or a real number, not NoneType")
    ELSE IF opt[1] \in DOMAIN IntTable
    THEN Ok(IntTable[opt[1]])
    ELSE Raise("invalid literal for int() with base 10: " \o opt[1])

----------------------------------------------------------------------------
(* XML elements.  An element is [attrib, children, text]: attrib a         *)
(* function from the names of its attributes to their values, text None    *)
(* or Some(sequence of lexemes), a lexeme being a run of whitespace or a   *)
(* token.                                                                  *)

Whitespace == {" ", "\n"}

\* Element.get(key, default): an optional string when no default is given.
Get(elem, key) ==
    IF key \in DOMAIN elem.attrib THEN Some(elem.attrib[key]) ELSE None

GetDefault(elem, key, default) ==
    IF key \in DOMAIN elem.attrib THEN elem.attrib[key] ELSE default

\* Element.find(tag): the first direct child with that tag, or None.
Find(elem, tag) ==
    LET hits == SelectSeq(elem.children, LAMBDA c : c.tag = tag)
    IN  IF hits = <<>> THEN None ELSE Some(hits[1])

\* str.strip().split(): the tokens between the runs of whitespace.
Split(text) == SelectSeq(text, LAMBDA x : x \notin Whitespace)

----------------------------------------------------------------------------
(* parse_transform_matrix and compute_camera_center.                       *)

\* Reshape with the values laid out column by column.
Reshape_ColumnMajor(values) ==
    [r \in 1..4 |-> [c \in 1..4 |-> values[4 * (c - 1) + r]]]

\* np.array(values).reshape(4, 4): row-major.
Reshape(values) ==
    [r \in 1..4 |-> [c \in 1..4 |-> values[4 * (r - 1) + c]]]

\* matrix[:3, :3] and matrix[:3, 3].
Rotation(matrix) == [r \in 1..3 |-> [c \in 1..3 |-> matrix[r][c]]]
Translation(matrix) == [r \in 1..3 |-> matrix[r][4]]

\* parse_transform_matrix rejecting only the transforms that are too short.
parse_transform_matrix_AtLeast16(transform_str) ==
    IF transform_str = None
    THEN Raise("'NoneType' object has no attribute 'strip'")
    ELSE LET tokens == Split(transform_str[1])
             bad == {k \in 1..Len(tokens) : ~FloatOf(tokens[k]).ok}
             first == CHOOSE k \in bad : \A m \in bad : k <= m
         IN  IF bad # {}
             THEN FloatOf(tokens[first])
             ELSE LET values == [k \in 1..Len(tokens) |-> FloatOf(tokens[k]).val]
                  IN  IF Len(values) < 16
                      THEN Raise("Expected 16 values, got " \o ToString(Len(values)))
                      ELSE Ok([R |-> Rotation(Reshape(values)),
                               t |-> Translation(Reshape(values))])

\* parse_transform_matrix(transform_str): Ok([R, t]) or the exception.
\* The tokens are converted first, in order, then counted.
parse_transform_matrix(transform_str) ==
    IF transform_str = None
    THEN Raise("'NoneType' object has no attribute 'strip'")
    ELSE LET tokens == Split(transform_str[1])
             bad == {k \in 1..Len(tokens) : ~FloatOf(tokens[k]).ok}
             first == CHOOSE k \in bad : \A m \in bad : k <= m
         IN  IF bad # {}
             THEN FloatOf(tokens[first])
             ELSE LET values == [k \in 1..Len(tokens) |-> FloatOf(tokens[k]).val]
                  IN  IF Len(values) # 16
                      THEN Raise("Expected 16 values, got " \o ToString(Len(values)))
                      ELSE Ok([R |-> Rotation(Reshape(values)),
                               t |-> Translation(Reshape(values))])

\* R.T
Transpose(R) == [r \in 1..3 |-> [c \in 1..3 |-> R[c][r]]]

\* -R
Negate(R) == [r \in 1..3 |-> [c \in 1..3 |-> -R[r][c]]]

\* M @ t
MatVec(M, t) == [r \in 1..3 |-> M[r][1] * t[1] + M[r][2] * t[2] + M[r][3] * t[3]]

\* compute_camera_center without the transposition: -R @ t.
compute_camera_center_NoTranspose(R, t) == MatVec(Negate(R), t)

\* compute_camera_center(R, t): C = -R.T @ t, the unary minus binding
\* tighter than @.
compute_camera_center(R, t) == MatVec(Negate(Transpose(R)), t)

\* np.vstack([np.hstack([R, t.reshape(-1, 1)]), [0, 0, 0, 1]])
Homogeneous(R, t) ==
    [r \in 1..4 |-> IF r <= 3 THEN R[r] \o <<t[r]>> ELSE <<0, 0, 0, 1>>]

----------------------------------------------------------------------------
(* The body of the for loop of parse_camera_xml for one camera element.    *)

\* Lines 85-104: the try block; Ok(camera_data) or the exception caught.
camera_data(camera_id, label, transform_str) ==
    LET Rt == parse_transform_matrix(transform_str)
    IN  IF ~Rt.ok THEN Rt
        ELSE LET R == Rt.val.R
                 t == Rt.val.t
                 C == compute_camera_center(R, t)
                 id == IntOf(camera_id)
             IN  IF ~id.ok THEN id
                 ELSE Ok([id |-> id.val,
                          label |-> label,
                          rotation |-> R,
                          translation |-> t,
                          center |-> C,
                          matrix |-> Homogeneous(R, t)])

\* Disabled comparing with "False".
Disabled_WrongCase(camera) == GetDefault(camera, "enabled", "true") = "False"

\* Lines 70-71: the camera is skipped when enabled is exactly "false".
Disabled(camera) == GetDefault(camera, "enabled", "true") = "false"

\* Label building the default from the id converted to an integer.
Label_FromIntId(camera, camera_id) ==
    GetDefault(camera, "label",
               "Camera_" \o (IF IntOf(camera_id).ok
                             THEN ToString(IntOf(camera_id).val)
                             ELSE Str(camera_id)))

\* Line 75: the label attribute, "Camera_<id>" (the id as written, "None"
\* when there is none) by default.
Label(camera, camera_id) ==
    GetDefault(camera, "label", "Camera_" \o Str(camera_id))

\* Lines 69-108: what one iteration appends to cameras and prints.
Iteration(camera) ==
    LET camera_id == Get(camera, "id")
        label == Label(camera, camera_id)
        transform_elem == Find(camera, "transform")
    IN  IF Disabled(camera)
        THEN [append |-> <<>>, print |-> <<>>]
        ELSE IF transform_elem = None
        THEN [append |-> <<>>,
              print |-> <<[kind |-> "warning", camera |-> Str(camera_id)]>>]
        ELSE LET data == camera_data(camera_id, label, transform_elem[1].text)
             IN  IF data.ok
                 THEN [append |-> <<data.val>>, print |-> <<>>]
                 ELSE [append |-> <<>>,
                       print |-> <<[kind |-> "error", camera |-> Str(camera_id),
                                    msg |-> data.err]>>]

----------------------------------------------------------------------------
(* print_camera_stats and save_cameras_json.                               *)

\* The squared norm of centers[a] - centers[b] (line 155 takes its root).
Dist2(ca, cb) ==
    (ca[1] - cb[1]) * (ca[1] - cb[1]) + (ca[2] - cb[2]) * (ca[2] - cb[2])
    + (ca[3] - cb[3]) * (ca[3] - cb[3])

\* Lines 154-156: the inner loop, j from a + 1 (0-based a) to n - 1.
RECURSIVE InnerLoop(_, _, _)
InnerLoop(centers, a, b) ==
    IF b > Len(centers) THEN <<>>
    ELSE <<[i |-> a, j |-> b, dist2 |-> Dist2(centers[a], centers[b])]>>
         \o InnerLoop(centers, a, b + 1)

\* OuterLoop with the inner loop over every camera, j from 0.
RECURSIVE OuterLoop_EveryJ(_, _)
OuterLoop_EveryJ(centers, a) ==
    IF a > Len(centers) THEN <<>>
    ELSE InnerLoop(centers, a, 1) \o OuterLoop_EveryJ(centers, a + 1)

\* Lines 152-156: the outer loop; the list of distances, each with the
\* pair of (1-based) indices it was computed for.
RECURSIVE OuterLoop(_, _)
OuterLoop(centers, a) ==
    IF a > Len(centers) THEN <<>>
    ELSE InnerLoop(centers, a, a + 1) \o OuterLoop(centers, a + 1)

Min(S) == CHOOSE x \in S : \A y \in S : x <= y
Max(S) == CHOOSE x \in S : \A y \in S : y <= x

\* Lines 140-162: [distances, print] of print_camera_stats(cams), for a
\* non-empty cams.
Stats(cams) ==
    LET centers == [k \in 1..Len(cams) |-> cams[k].center]
        axis(c) == {centers[k][c] : k \in 1..Len(centers)}
        dists == OuterLoop(centers, 1)
        d2 == {dists[k].dist2 : k \in 1..Len(dists)}
    IN  [distances |-> dists,
         print |->
            <<[kind |-> "statistics", n |-> Len(cams),
               lo |-> [c \in 1..3 |-> Min(axis(c))],
               hi |-> [c \in 1..3 |-> Max(axis(c))]]>>
            \o (IF dists # <<>>
                THEN <<[kind |-> "spacing", min2 |-> Min(d2), max2 |-> Max(d2)]>>
                ELSE <<>>)]

\* Lines 118-125: output_data.
OutputData(cams) ==
    [cameras |-> cams,
     metadata |-> [total_cameras |-> Len(cams),
                   description |-> "Camera poses for virtual tour navigation",
                   coordinate_system |-> "Right-handed, Y-up (Three.js compatible)"]]

----------------------------------------------------------------------------
(* main().                                                                 *)

\* Lines 172-173.
input_xml == argv[2]
output_json == IF Len(argv) > 2 THEN argv[3] ELSE "cameras.json"

Info(text) == [kind |-> "info", text |-> text]

\* sys.exit(1)
Exit(code) == pc' = "exited" /\ exitCode' = code

\* Lines 166-176.
CheckArgs ==
    /\ pc = "start"
    /\ IF Len(argv) < 2
       THEN /\ out' = out \o <<Info("Usage: python parse_cameras.py <input_xml> [output_json]")>>
            /\ Exit(1)
       ELSE /\ out' = out \o <<Info("Parsing camera data from: " \o input_xml)>>
            /\ pc' = "parse"
            /\ UNCHANGED exitCode
    /\ UNCHANGED <<argv, doc, i, cameras, distances, fs, opens>>

\* Line 62 with the handlers of lines 195-202: ET.parse raises
\* FileNotFoundError (the input file is missing) or ParseError (it is not
\* well formed), and main prints the error and exits.
ParseFails ==
    /\ pc = "parse"
    /\ \/ out' = out \o <<[kind |-> "fatal", msg |-> "Could not find file: " \o input_xml]>>
       \/ out' = out \o <<[kind |-> "fatal", msg |-> "ParseError"]>>
    /\ Exit(1)
    /\ UNCHANGED <<argv, doc, i, cameras, distances, fs, opens>>

\* Lines 62-68: ET.parse yields a tree whose camera elements, in document
\* order, are d; the for loop starts.
ParseTree(d) ==
    /\ doc' = d
    /\ cameras' = <<>>
    /\ i' = 1
    /\ pc' = "loop"
    /\ UNCHANGED <<argv, distances, out, fs, opens, exitCode>>

\* ProcessEntry with no try around the conversion: the exception of an
\* element reaches the handler of main.
ProcessEntry_Propagates ==
    /\ pc = "loop"
    /\ i <= Len(doc)
    /\ IF \E k \in 1..Len(Iteration(doc[i]).print) :
             Iteration(doc[i]).print[k].kind = "error"
       THEN /\ out' = out \o <<[kind |-> "fatal", msg |-> Iteration(doc[i]).print[1].msg]>>
            /\ Exit(1)
            /\ UNCHANGED <<cameras, i>>
       ELSE /\ cameras' = cameras \o Iteration(doc[i]).append
            /\ out' = out \o Iteration(doc[i]).print
            /\ i' = i + 1
            /\ UNCHANGED <<pc, exitCode>>
    /\ UNCHANGED <<argv, doc, distances, fs, opens>>

\* ProcessEntry writing the output file each time it appends a record.
ProcessEntry_SavesEachTime ==
    /\ pc = "loop"
    /\ i <= Len(doc)
    /\ cameras' = cameras \o Iteration(doc[i]).append
    /\ out' = out \o Iteration(doc[i]).print
    /\ i' = i + 1
    /\ IF Iteration(doc[i]).append # <<>>
       THEN /\ opens' = opens + 1
            /\ fs' = [fs EXCEPT ![output_json] = [kind |-> "json", data |-> OutputData(cameras')]]
       ELSE UNCHANGED <<fs, opens>>
    /\ UNCHANGED <<argv, pc, doc, distances, exitCode>>

\* ProcessEntry dropping a record whose id is already in cameras.
ProcessEntry_Dedup ==
    /\ pc = "loop"
    /\ i <= Len(doc)
    /\ cameras' = cameras \o
          SelectSeq(Iteration(doc[i]).append,
                    LAMBDA c : \A k \in 1..Len(cameras) : cameras[k].id # c.id)
    /\ out' = out \o Iteration(doc[i]).print
    /\ i' = i + 1
    /\ UNCHANGED <<argv, pc, doc, distances, fs, opens, exitCode>>

\* Lines 68-108: one iteration of the for loop.
ProcessEntry ==
    /\ pc = "loop"
    /\ i <= Len(doc)
    /\ cameras' = cameras \o Iteration(doc[i]).append
    /\ out' = out \o Iteration(doc[i]).print
    /\ i' = i + 1
    /\ UNCHANGED <<argv, pc, doc, distances, fs, opens, exitCode>>

\* Lines 110-111: the loop is over, parse_camera_xml returns.
ReturnCameras ==
    /\ pc = "loop"
    /\ i > Len(doc)
    /\ out' = out \o <<[kind |-> "parsed", n |-> Len(cameras)]>>
    /\ pc' = "check"
    /\ UNCHANGED <<argv, doc, i, cameras, distances, fs, opens, exitCode>>

\* CheckCameras without the check for an empty list.
CheckCameras_NoCheck ==
    /\ pc = "check"
    /\ pc' = "stats"
    /\ UNCHANGED <<argv, doc, i, cameras, distances, out, fs, opens, exitCode>>

\* Lines 181-183: SystemExit is no Exception, so no handler catches it.
CheckCameras ==
    /\ pc = "check"
    /\ IF cameras = <<>>
       THEN /\ out' = out \o <<[kind |-> "fatal", msg |-> "No cameras were parsed successfully"]>>
            /\ Exit(1)
       ELSE /\ pc' = "stats"
            /\ UNCHANGED <<out, exitCode>>
    /\ UNCHANGED <<argv, doc, i, cameras, distances, fs, opens>>

\* Line 185: print_camera_stats(cameras).
PrintStats ==
    /\ pc = "stats"
    /\ IF cameras = <<>>
       THEN UNCHANGED <<distances, out>>
       ELSE /\ distances' = Stats(cameras).distances
            /\ out' = out \o Stats(cameras).print
    /\ pc' = "save"
    /\ UNCHANGED <<argv, doc, i, cameras, fs, opens, exitCode>>

\* Line 187: save_cameras_json(cameras, output_json).
Save ==
    /\ pc = "save"
    /\ opens' = opens + 1
    /\ fs' = [fs EXCEPT ![output_json] = [kind |-> "json", data |-> OutputData(cameras)]]
    /\ out' = out \o <<Info("Camera data saved to: " \o output_json)>>
    /\ pc' = "finish"
    /\ UNCHANGED <<argv, doc, i, cameras, distances, exitCode>>

\* Lines 189-193, then main returns and the process exits with code 0.
Finish ==
    /\ pc = "finish"
    /\ out' = out \o <<Info("Parsing complete!")>>
    /\ Exit(0)
    /\ UNCHANGED <<argv, doc, i, cameras, distances, fs, opens>>

----------------------------------------------------------------------------
(* The inputs: command lines, files and documents.                         *)

Argvs ==
    {<<"parse_cameras.py">>,
     <<"parse_cameras.py", "in.xml">>,
     <<"parse_cameras.py", "in.xml", "out.json">>}

\* The paths the program may write, each holding an older file at the start.
Paths == {"cameras.json", "out.json"}
Stale == [kind |-> "stale"]

Element(tag, attrib, children, text) ==
    [tag |-> tag, attrib |-> attrib, children |-> children, text |-> text]

\* The attribute key = value when the option holds a value, none otherwise.
Attr(key, opt) == IF opt = None THEN <<>> ELSE key :> opt[1]

CameraElement(enabled, id, label, children) ==
    Element("camera",
            Attr("enabled", enabled) @@ Attr("id", id) @@ Attr("label", label),
            children, None)

\* The text of a transform: the tokens separated by blanks, between two
\* line breaks.
RECURSIVE Join(_)
Join(tokens) ==
    IF Len(tokens) <= 1 THEN tokens
    ELSE <<Head(tokens), " ">> \o Join(Tail(tokens))

Text(tokens) == Some(<<"\n">> \o Join(tokens) \o <<"\n">>)

\* Identity rotation, translation (1, 2, 3).
IdentityTokens ==
    <<"1", "0", "0", "1",   "0", "1", "0", "2",
      "0", "0", "1", "3",   "0", "0", "0", "1">>
\* A quarter turn about z, translation (2, 0, -10).
TurnTokens ==
    <<"0", "-1", "0", "2",   "+1", "0", "0", "0",
      "0", "0", "1", "-10",  "0", "0", "0", "1">>

Transform(text) == Element("transform", <<>>, <<>>, text)

\* The camera elements of the pipeline's documents.  The core: every
\* combination of enabled (absent, "false"), id (absent, an integer), label
\* (absent, present) and children (none, a valid transform, a transform of
\* 15 tokens).
CoreEntries ==
    {CameraElement(e, id, l, ch) :
        e \in {None, Some("false")},
        id \in {None, Some("7")},
        l \in {None, Some("North")},
        ch \in {<<>>, <<Transform(Text(IdentityTokens))>>,
                <<Transform(Text(SubSeq(IdentityTokens, 1, 15)))>>}}

\* The edge cases, each one field away from a valid element: enabled is
\* "False", the id is no integer, the id has a leading zero, another valid
\* transform, 17 tokens,
\* a token that is no number, a transform element with no text, a
\* transform that is not the first child, a transform that is a grandchild
\* only.
EdgeEntries ==
    {CameraElement(Some("False"), Some("7"), None, <<Transform(Text(IdentityTokens))>>),
     CameraElement(None, Some("x7"), None, <<Transform(Text(IdentityTokens))>>),
     CameraElement(None, Some("07"), None, <<Transform(Text(IdentityTokens))>>),
     CameraElement(None, Some("8"), None, <<Transform(Text(TurnTokens))>>),
     CameraElement(None, Some("7"), None, <<Transform(Text(IdentityTokens \o <<"0">>))>>),
     CameraElement(None, Some("7"), None,
                   <<Transform(Text([IdentityTokens EXCEPT ![6] = "abc"]))>>),
     CameraElement(None, Some("7"), None, <<Transform(None)>>),
     CameraElement(None, Some("7"), None,
                   <<Element("orientation", <<>>, <<>>, Some(<<"1">>)),
                     Transform(Text(TurnTokens))>>),
     CameraElement(None, Some("7"), None,
                   <<Element("group", <<>>, <<Transform(Text(IdentityTokens))>>, None)>>)}

Entries == CoreEntries \cup EdgeEntries

\* The input file holds a document of up to MaxEntries camera elements.
ParseDocument ==
    /\ pc = "parse"
    /\ \E n \in 0..MaxEntries : \E d \in [1..n -> Entries] : ParseTree(d)

----------------------------------------------------------------------------
(* The specification.                                                      *)

Init ==
    /\ argv \in Argvs
    /\ pc = "start"
    /\ doc = <<>>
    /\ i = 1
    /\ cameras = <<>>
    /\ distances = <<>>
    /\ out = <<>>
    /\ fs = [p \in Paths |-> Stale]
    /\ opens = 0
    /\ exitCode = NoExit

Next ==
    \/ CheckArgs
    \/ ParseFails
    \/ ParseDocument
    \/ ProcessEntry
    \/ ReturnCameras
    \/ CheckCameras
    \/ PrintStats
    \/ Save
    \/ Finish

Spec == Init /\ [][Next]_vars

----------------------------------------------------------------------------
(* The conversion of one camera element over a wide range of transforms.   *)

\* The tokens of a wide transform that are not "0".
NonZeroTokens == {"1", "-1", "2", "-2"}

WideBottoms == {<<"0", "0", "0", "1">>, <<"1", "0", "0", "2">>}

WideDoc(tokens) ==
    <<CameraElement(None, Some("7"), None, <<Transform(Text(tokens))>>)>>

\* The input file holds one camera element whose transform has at most
\* MaxNonZero tokens other than "0" in its top three rows and one of the
\* bottom rows of WideBottoms, or is one of the two fixtures.
WideParseDocument ==
    /\ pc = "parse"
    /\ \/ \E S \in {T \in SUBSET (1..12) : Cardinality(T) <= MaxNonZero} :
            \E g \in [S -> NonZeroTokens] :
              \E bottom \in WideBottoms :
                ParseTree(WideDoc([k \in 1..12 |-> IF k \in S THEN g[k] ELSE "0"] \o bottom))
       \/ \E tokens \in {IdentityTokens, TurnTokens} : ParseTree(WideDoc(tokens))

WideNext ==
    \/ CheckArgs
    \/ ParseFails
    \/ WideParseDocument
    \/ ProcessEntry
    \/ ReturnCameras
    \/ CheckCameras
    \/ PrintStats
    \/ Save
    \/ Finish

WideSpec == Init /\ [][WideNext]_vars

----------------------------------------------------------------------------
(* The statistics over documents of several valid camera elements.         *)

\* The largest number of camera elements of such a document.
MaxCams == 3

\* Three valid camera elements, the centres of the first two equal.
StatsEntries ==
    {CameraElement(None, Some("7"), None, <<Transform(Text(IdentityTokens))>>),
     CameraElement(None, Some("07"), Some("North"), <<Transform(Text(IdentityTokens))>>),
     CameraElement(None, Some("8"), None, <<Transform(Text(TurnTokens))>>)}

StatsParseDocument ==
    /\ pc = "parse"
    /\ \E n \in 0..MaxCams : \E d \in [1..n -> StatsEntries] : ParseTree(d)

StatsNext ==
    \/ CheckArgs
    \/ ParseFails
    \/ StatsParseDocument
    \/ ProcessEntry
    \/ ReturnCameras
    \/ CheckCameras
    \/ PrintStats
    \/ Save
    \/ Finish

StatsSpec == Init /\ [][StatsNext]_vars

----------------------------------------------------------------------------
(* The vocabulary of the properties, stated on a camera element as the     *)
(* document gives it.                                                      *)

\* The indices of the camera elements the loop has been through.
Processed == 1..(i - 1)

HasAttr(e, key) == key \in DOMAIN e.attrib

\* enabled is exactly "false".
IsDisabled(e) == HasAttr(e, "enabled") /\ e.attrib["enabled"] = "false"

\* The element has a direct child transform.
HasTransform(e) == \E k \in 1..Len(e.children) : e.children[k].tag = "transform"

\* The tokens of the text of its first transform child (none without such a
\* child or without text).
TokensOf(e) ==
    LET k == CHOOSE m \in 1..Len(e.children) :
                 /\ e.children[m].tag = "transform"
                 /\ \A q \in 1..(m - 1) : e.children[q].tag # "transform"
        text == e.children[k].text
    IN  IF ~HasTransform(e) \/ text = None THEN <<>>
        ELSE SelectSeq(text[1], LAMBDA x : x # " " /\ x # "\n")

IsNumber(x) == x \in DOMAIN FloatTable
IsInteger(x) == x \in DOMAIN IntTable

WrongCount(e) == HasTransform(e) /\ Len(TokensOf(e)) # 16
NonNumeric(e) ==
    HasTransform(e) /\ LET tokens == TokensOf(e)
                       IN  \E k \in 1..Len(tokens) : ~IsNumber(tokens[k])
BadId(e) == ~HasAttr(e, "id") \/ ~IsInteger(e.attrib["id"])

\* The four conditions under which an element converts.
Convertible(e) ==
    /\ ~HasAttr(e, "enabled") \/ e.attrib["enabled"] # "false"
    /\ HasTransform(e)
    /\ LET tokens == TokensOf(e)
       IN  Len(tokens) = 16 /\ \A k \in 1..16 : IsNumber(tokens[k])
    /\ HasAttr(e, "id") /\ IsInteger(e.attrib["id"])

\* The processed elements that convert, in document order.
ConvertedIdx ==
    SelectSeq([k \in Processed |-> k], LAMBDA k : Convertible(doc[k]))

\* The element the n-th collected record comes from.
Source(n) == doc[ConvertedIdx[n]]

\* The 4x4 matrix the 16 tokens of a convertible element spell, row-major.
InputMatrix(e) ==
    LET tokens == TokensOf(e)
    IN  [r \in 1..4 |-> [c \in 1..4 |-> FloatTable[tokens[4 * (r - 1) + c]]]]

\* The output file has been written, and what it holds.
Written == fs[output_json].kind = "json"
Output == fs[output_json].data

Exited == pc = "exited"
Printed(kind) == {k \in 1..Len(out) : out[k].kind = kind}
PrintedFatal(msg) ==
    \E k \in 1..Len(out) : out[k].kind = "fatal" /\ out[k].msg = msg

----------------------------------------------------------------------------
(* The properties.                                                         *)

\* C1: a camera element that is disabled, has no transform child, has a
\* transform of other than 16 tokens or with a token that is no number, or
\* has a missing or non-integer id, is skipped and the loop goes on: such
\* elements append no record, the process never exits before the loop has
\* been through every element, and when some element of the document is
\* valid the run writes the output and exits with code 0.
C1_Skippable(e) ==
    \/ IsDisabled(e)
    \/ ~HasTransform(e)
    \/ WrongCount(e)
    \/ NonNumeric(e)
    \/ BadId(e)

C1_BadEntriesNeverAbort ==
    /\ Len(cameras) <= Cardinality({k \in Processed : ~C1_Skippable(doc[k])})
    /\ Exited => i = Len(doc) + 1
    /\ pc = "loop" => exitCode = NoExit
    /\ (Exited /\ \E k \in 1..Len(doc) : ~C1_Skippable(doc[k]))
          => /\ exitCode = 0
             /\ Written
             /\ Len(Output.cameras)
                  = Cardinality({k \in 1..Len(doc) : ~C1_Skippable(doc[k])})

\* C1 witness: the run of a two-element document whose first element is
\* enabled and malformed and whose second is valid has exited with code 0.
C1_Witness ==
    /\ Exited /\ exitCode = 0 /\ Written
    /\ Len(doc) = 2
    /\ ~IsDisabled(doc[1]) /\ (WrongCount(doc[1]) \/ NonNumeric(doc[1]) \/ BadId(doc[1]))
    /\ ~C1_Skippable(doc[2])
    /\ Len(Output.cameras) = 1

\* C2: an element whose enabled attribute is exactly "false" yields no
\* record, no warning and no error, whatever its id, label and transform:
\* every other processed element yields exactly one record, warning or
\* error, so records and messages together number the processed elements
\* that are not disabled; a document of disabled elements only writes nothing.
C2_DisabledIsSilent ==
    /\ Len(cameras) + Cardinality(Printed("warning")) + Cardinality(Printed("error"))
         = Cardinality({k \in Processed : ~IsDisabled(doc[k])})
    /\ Written =>
         /\ Len(Output.cameras) <= Cardinality({k \in 1..Len(doc) : ~IsDisabled(doc[k])})
         /\ \E k \in 1..Len(doc) : ~IsDisabled(doc[k])

\* C2 witness: a disabled element that would otherwise convert, next to a
\* valid one, and the output holds one record only.
C2_Witness ==
    /\ Exited /\ Written
    /\ Len(doc) = 2
    /\ IsDisabled(doc[1]) /\ HasTransform(doc[1]) /\ ~WrongCount(doc[1])
    /\ ~NonNumeric(doc[1]) /\ ~BadId(doc[1])
    /\ Convertible(doc[2])
    /\ Len(Output.cameras) = 1
    /\ Printed("warning") = {} /\ Printed("error") = {}

\* C3: the exit code is 0 only when at least one camera was converted and
\* the output file was written; it is 1 when the input-path argument is
\* missing, when the input file is not found, when the document cannot be
\* parsed, and when no camera was converted.
C3_ExitCodes ==
    /\ exitCode \in {NoExit, 0, 1}
    /\ Exited <=> exitCode # NoExit
    /\ exitCode = 0 =>
         /\ Len(cameras) >= 1
         /\ Written
         /\ Output.cameras = cameras
    /\ (Exited /\ Len(argv) < 2) => exitCode = 1
    /\ (Len(argv) >= 2 /\ PrintedFatal("Could not find file: " \o input_xml))
          => Exited /\ exitCode = 1
    /\ PrintedFatal("ParseError") => Exited /\ exitCode = 1
    /\ (Exited /\ cameras = <<>>) => exitCode = 1

\* C3 witness: a document with camera elements, none of which converts,
\* ends with exit code 1.
C3_Witness ==
    /\ Exited /\ exitCode = 1
    /\ Len(doc) >= 1 /\ i = Len(doc) + 1
    /\ cameras = <<>>

\* C4: the output file is opened for writing at most once, and only after
\* parse_camera_xml has been through every camera element and returned;
\* no path but the output path is written; on every fatal path (exit code
\* 1) no file is opened and the older files are as they were.
C4_WriteOnceAtTheEnd ==
    /\ opens <= 1
    /\ opens = 1 =>
         /\ i = Len(doc) + 1
         /\ Printed("parsed") # {}
         /\ pc \in {"finish", "exited"}
         /\ Written
    /\ (\E p \in Paths : fs[p] # Stale) => opens = 1
    /\ \A p \in Paths \ {output_json} : fs[p] = Stale
    /\ exitCode = 1 => opens = 0 /\ \A p \in Paths : fs[p] = Stale

\* C4 witness: a run over a document of two elements has written its file.
C4_Witness ==
    /\ opens = 1 /\ Written /\ Len(doc) >= 2 /\ exitCode = 0

\* C5 as stated: the matrix of every collected record equals the 4x4
\* matrix its 16 tokens spell, element for element, in all four rows.
C5_RoundTripAllRows ==
    \A n \in 1..Len(cameras) :
        /\ n <= Len(ConvertedIdx)
        /\ LET input == InputMatrix(Source(n))
           IN  \A r \in 1..4 : \A c \in 1..4 : cameras[n].matrix[r][c] = input[r][c]

\* C5, amended: the top three rows of the matrix of every collected record
\* equal the top three rows the 16 tokens spell, element for element, and
\* its bottom row is (0, 0, 0, 1) whatever the bottom row of the input is;
\* so the matrix equals the input exactly when the input's bottom row is
\* (0, 0, 0, 1).
C5_RoundTripTopRows ==
    \A n \in 1..Len(cameras) :
        /\ n <= Len(ConvertedIdx)
        /\ LET input == InputMatrix(Source(n))
               matrix == cameras[n].matrix
           IN  /\ Len(matrix) = 4
               /\ \A r \in 1..4 : Len(matrix[r]) = 4
               /\ \A r \in 1..3 : \A c \in 1..4 : matrix[r][c] = input[r][c]
               /\ matrix[4] = <<0, 0, 0, 1>>
               /\ (matrix = input) <=> (input[4] = <<0, 0, 0, 1>>)

\* C5 witness: a record collected from a transform whose top rows hold a
\* non-zero off the diagonal and whose bottom row is not (0, 0, 0, 1).
C5_Witness ==
    /\ Len(cameras) = 1 /\ Len(ConvertedIdx) = 1
    /\ LET input == InputMatrix(Source(1))
       IN  /\ input[4] # <<0, 0, 0, 1>>
           /\ input[2][1] # 0
           /\ cameras[1].matrix[2][1] = input[2][1]

\* C6: for every collected record, rotation is the top-left 3x3 and
\* translation the fourth column of rows 0..2 of the input, and
\* center[k] = -(rotation[0][k] * translation[0] + rotation[1][k] *
\* translation[1] + rotation[2][k] * translation[2]) for each k; identity
\* rotation with translation (1, 2, 3) gives centre (-1, -2, -3).
C6_CenterIsMinusRtT ==
    \A n \in 1..Len(cameras) :
        LET cam == cameras[n]
            input == InputMatrix(Source(n))
        IN  /\ n <= Len(ConvertedIdx)
            /\ \A r \in 1..3 : \A c \in 1..3 : cam.rotation[r][c] = input[r][c]
            /\ \A r \in 1..3 : cam.translation[r] = input[r][4]
            /\ \A k \in 1..3 :
                  cam.center[k] = -(cam.rotation[1][k] * cam.translation[1]
                                    + cam.rotation[2][k] * cam.translation[2]
                                    + cam.rotation[3][k] * cam.translation[3])
            /\ (/\ cam.rotation = <<<<1, 0, 0>>, <<0, 1, 0>>, <<0, 0, 1>>>>
                /\ cam.translation = <<1, 2, 3>>)
                  => cam.center = <<-1, -2, -3>>

\* C6 witness: the fixture, identity rotation and translation (1, 2, 3),
\* has been converted.
C6_Witness ==
    /\ Len(cameras) = 1
    /\ cameras[1].rotation = <<<<1, 0, 0>>, <<0, 1, 0>>, <<0, 0, 1>>>>
    /\ cameras[1].translation = <<1, 2, 3>>
    /\ cameras[1].center = <<-1, -2, -3>>

\* C7: the collected cameras are the records of the processed elements
\* that convert, one each, in document order, with nothing reordered,
\* merged or dropped as a duplicate; the output document holds that same
\* sequence and metadata.total_cameras is its length.
C7_OrderedSubsequence ==
    /\ LET idx == ConvertedIdx
       IN  /\ Len(cameras) = Len(idx)
           /\ \A n \in 1..Len(cameras) :
                 n <= Len(idx) => <<cameras[n]>> = Iteration(doc[idx[n]]).append
    /\ Written =>
         /\ i = Len(doc) + 1
         /\ Output.cameras = cameras
         /\ Output.metadata.total_cameras = Len(Output.cameras)

\* C7 witness: two valid elements with the same id and different labels
\* have given two records, in document order.
C7_Witness ==
    /\ Written /\ Len(doc) = 2
    /\ Convertible(doc[1]) /\ Convertible(doc[2])
    /\ Len(Output.cameras) = 2
    /\ Output.cameras[1].id = Output.cameras[2].id
    /\ Output.cameras[1].label = "North" /\ Output.cameras[2].label # "North"
    /\ HasAttr(doc[1], "label") /\ ~HasAttr(doc[2], "label")

\* C8: the label of every collected record is the label attribute of its
\* element, unchanged, when the element has one, and "Camera_" followed by
\* the element's id attribute as written otherwise.
C8_Labels ==
    /\ LET idx == ConvertedIdx
       IN  \A n \in 1..Len(cameras) :
             /\ n <= Len(idx)
             /\ LET e == doc[idx[n]]
                IN  /\ HasAttr(e, "label") => cameras[n].label = e.attrib["label"]
                    /\ ~HasAttr(e, "label")
                          => cameras[n].label = "Camera_" \o e.attrib["id"]
    /\ Written => Output.cameras = cameras

\* C8 witness: elements with id "7" and with id "07", neither with a label,
\* are in the output as "Camera_7" and "Camera_07".
C8_Witness ==
    /\ Written /\ Len(Output.cameras) = 2
    /\ ~HasAttr(doc[1], "label") /\ doc[1].attrib["id"] = "7"
    /\ ~HasAttr(doc[2], "label") /\ doc[2].attrib["id"] = "07"
    /\ Output.cameras[1].label = "Camera_7"
    /\ Output.cameras[2].label = "Camera_07"

\* C9: once print_camera_stats has run over n cameras, the distance list
\* has one entry for each unordered pair of distinct cameras, n(n-1)/2 in
\* all, none of a camera with itself and no pair twice; with one camera
\* the list is empty, the statistics are printed and no spacing is; the
\* cameras are the ones collected, untouched.
C9_AfterStats == pc \in {"save", "finish"} \/ exitCode = 0

C9_PairwiseDistances ==
    C9_AfterStats =>
        LET n == Len(cameras)
            pair(k) == {distances[k].i, distances[k].j}
        IN  /\ 2 * Len(distances) = n * (n - 1)
            /\ \A k \in 1..Len(distances) :
                  /\ distances[k].i \in 1..n /\ distances[k].j \in 1..n
                  /\ distances[k].i # distances[k].j
                  /\ distances[k].dist2
                       = Dist2(cameras[distances[k].i].center, cameras[distances[k].j].center)
            /\ \A k, m \in 1..Len(distances) : k # m => pair(k) # pair(m)
            /\ \A a, b \in 1..n :
                  a # b => \E k \in 1..Len(distances) : pair(k) = {a, b}
            /\ Cardinality(Printed("statistics")) = 1
            /\ Printed("spacing") # {} <=> n >= 2
            /\ n = 1 => distances = <<>>
            /\ LET idx == ConvertedIdx
               IN  /\ n = Len(idx)
                   /\ \A k \in 1..n :
                         k <= Len(idx) => <<cameras[k]>> = Iteration(doc[idx[k]]).append

\* C9 witness: the statistics of three cameras, two of them at the same
\* place, hold three distances.
C9_Witness ==
    /\ pc = "save" /\ Len(cameras) = 3 /\ Len(distances) = 3
    /\ cameras[1].center = cameras[2].center
    /\ cameras[1].center # cameras[3].center

\* C10: a camera element gives exactly one record if and only if it is
\* not disabled, has a direct child transform whose text splits into
\* exactly 16 tokens that are all numbers, and has an id that parses as an
\* integer; every other element gives none, so the cameras never outnumber
\* the camera elements.
C10_OneRecordIffConvertible ==
    /\ Len(cameras) = Cardinality({k \in Processed : Convertible(doc[k])})
    /\ Len(cameras) <= Len(doc)
    /\ Written =>
         /\ Len(Output.cameras) = Cardinality({k \in 1..Len(doc) : Convertible(doc[k])})
         /\ Output.metadata.total_cameras <= Len(doc)

\* C10 witness: of a valid element and one with 17 tokens, one record.
C10_Witness ==
    /\ Written /\ Len(doc) = 2
    /\ Convertible(doc[1])
    /\ ~IsDisabled(doc[2]) /\ ~BadId(doc[2])
    /\ HasTransform(doc[2]) /\ Len(TokensOf(doc[2])) = 17
    /\ ~NonNumeric(doc[2])
    /\ Len(Output.cameras) = 1

=============================================================================
